---- MODULE Spec2Model ----
(***************************************************************************)
(* Model of LokiHandler (src/src/log_to_loki/loki_handler.py).  Producers  *)
(* call emit(), which puts an entry on log_queue; one background thread    *)
(* (_batch_worker) drains the queue into a local batch and hands the batch *)
(* to _send_batch when it is full or old enough; close() sleeps            *)
(* flush_interval + 1 and closes the HTTP session.                         *)
(*                                                                         *)
(* Spec is the running handler, SpecClose adds close(), LiveSpec adds the   *)
(* scheduling of the worker for progress properties, SpecCtor starts in    *)
(* the middle of the constructor, and SpecSend is one _send_batch call on  *)
(* a batch and a value of self.labels drawn from bounded sets.             *)
(*                                                                         *)
(* Time is discrete: one second of the program is TicksPerUnit ticks.      *)
(* Computation takes no time: the clock advances only while the worker is  *)
(* blocked in log_queue.get(timeout=1.0) or inside session.post(...).      *)
(***************************************************************************)
EXTENDS Integers, Sequences, FiniteSets, TLC

VARIABLES
    now,            \* time.time(), in ticks
    batch_size,     \* self.batch_size
    flush_interval, \* self.flush_interval, in seconds
    log_queue,      \* self.log_queue, a FIFO of log entries
    logged,         \* number of entries put on the queue so far
    pc,             \* worker position: "get" (in log_queue.get) or "post"
    batch,          \* _batch_worker local: batch
    last_flush,     \* _batch_worker local: last_flush
    current_time,   \* _batch_worker local: current_time
    get_start,      \* time at which the pending log_queue.get was called
    dequeued_at,    \* for each entry of batch, the time it was dequeued
    payload,        \* _send_batch local: the body of the POST in flight
    sent,           \* every call of _send_batch: its messages and result
    fresh,          \* records enqueued while queue and batch were empty
    close_pc,       \* close(): "open", "sleeping" or "closed"
    close_start,    \* time at which close() was called
    close_logged,   \* value of logged when close() was called
    self_labels,    \* self.labels, a dict: its items in insertion order
    session,        \* self.session: "unassigned" or "assigned"
    response,       \* _send_batch local: what session.post gave, or "none"
    posts,          \* number of session.post calls issued so far
    stderr          \* number of reports printed to sys.stderr so far

vars == <<now, batch_size, flush_interval, log_queue, logged, pc,
          batch, last_flush, current_time, get_start, dequeued_at, payload,
          sent, fresh, close_pc, close_start, close_logged, self_labels,
          session, response, posts, stderr>>

(***************************************************************************)
(* Bounds of the model.                                                    *)
(***************************************************************************)
TicksPerUnit == 2   \* clock resolution: ticks per second
MaxTime == 6        \* the clock stops here
MaxEntries == 2     \* emit() is called at most this many times
MaxPostTicks == 5   \* a POST blocks the worker for at most this many ticks
MaxBatchLen == 3    \* longest batch given to a _send_batch call on its own

(***************************************************************************)
(* Program constants.                                                      *)
(***************************************************************************)
PollTimeout == 1            \* log_queue.get(timeout=1.0)
DefaultBatchSize == 10      \* batch_size: int = 10
DefaultFlushInterval == 5   \* flush_interval: int = 5
CloseExtra == 1             \* time.sleep(self.flush_interval + 1)
TestWait == 2               \* time.sleep(2) in test_log_sending

PollTicks == PollTimeout * TicksPerUnit
IntervalTicks == flush_interval * TicksPerUnit
GraceTicks == (flush_interval + CloseExtra) * TicksPerUnit

\* The configurations explored: <<batch_size, flush_interval>>.
Configs == {<<0, 1>>, <<1, 1>>, <<2, 1>>, <<-1, 2>>, <<2, 2>>,
            <<DefaultBatchSize, DefaultFlushInterval>>}

Levels == {"INFO", "ERROR"}
CallerInfos == {[function |-> "main", line |-> 7, file |-> "app.py"]}

(***************************************************************************)
(* Helpers.                                                                *)
(***************************************************************************)
Last(s) == s[Len(s)]

\* F applied to the value of x, with x worked out once however often F
\* uses it.
Once(F(_), x) == CHOOSE r \in {F(v) : v \in {x}} : TRUE
Range(s) == {s[i] : i \in DOMAIN s}
Messages(s) == [i \in DOMAIN s |-> s[i].message]

\* str.lower() on the level names in use.
Lower(s) ==
    CASE s = "INFO" -> "info"
      [] s = "ERROR" -> "error"
      [] s = "WARNING" -> "warning"
      [] OTHER -> s

(***************************************************************************)
(* Python dicts.  A dict is the sequence of its items <<key, value>> in    *)
(* insertion order, with no key twice; two dicts are equal (==) when they  *)
(* hold the same items, in whatever order.                                 *)
(***************************************************************************)
Keys(d) == {d[i][1] : i \in DOMAIN d}
Get(d, k) == d[CHOOSE i \in DOMAIN d : d[i][1] = k][2]
AsMap(d) == [k \in Keys(d) |-> Get(d, k)]

\* {**d, **e}, e having no key twice: every item of e is set in turn, so
\* the keys of d keep their places and the new keys follow in e's order.
DictUpdate(d, e) ==
    Once(LAMBDA base :
            [i \in DOMAIN base |->
                IF base[i][1] \in Keys(e)
                THEN <<base[i][1], Get(e, base[i][1])>> ELSE base[i]]
            \o SelectSeq(e, LAMBDA item : item[1] \notin Keys(base)),
         d)

(***************************************************************************)
(* _send_batch: grouping of a batch into streams.                          *)
(***************************************************************************)
\* base_labels = {'job': 'python-app', 'level': 'info', **self.labels}
BaseLabels(own) ==
    DictUpdate(<< <<"job", "python-app">>, <<"level", "info">> >>, own)

\* labels = {**base_labels, 'level': ..., 'function': ..., 'file': ...}
EntryLabelsOf(own, entry) ==
    DictUpdate(BaseLabels(own),
               << <<"level", Lower(entry.level)>>,
                  <<"function", entry.function>>,
                  <<"file", entry.file>> >>)

base_labels == BaseLabels(self_labels)
EntryLabels(entry) == EntryLabelsOf(self_labels, entry)

\* The label keys in use, in the order of str comparison.
KeyOrder == <<"app", "env", "file", "function", "job", "level">>
SortedKeys(labels) == SelectSeq(KeyOrder, LAMBDA k : k \in Keys(labels))

\* Variant: labels.items() without sorted().
Unsorted(labels) == labels

\* sorted(labels.items()): keys are distinct, so the items are ordered by key.
Sorted(labels) ==
    Once(LAMBDA keys : [i \in DOMAIN keys |-> <<keys[i], Get(labels, keys[i])>>],
         SortedKeys(labels))

\* '|'.join([f'{k}={v}' for k, v in items])
RECURSIVE JoinItems(_)
JoinItems(items) ==
    IF items = <<>> THEN ""
    ELSE IF Len(items) = 1 THEN items[1][1] \o "=" \o items[1][2]
    ELSE items[1][1] \o "=" \o items[1][2] \o "|" \o JoinItems(Tail(items))

\* labels_key
LabelsKey(labels) == Once(JoinItems, Sorted(labels))

\* Variant: "streams[labels_key] = {...}" without the "not in" test, so a
\* stream met again starts over with the new value only.
PlaceReset(streams, key, labels, value) ==
    IF \E i \in DOMAIN streams : streams[i].key = key
    THEN [i \in DOMAIN streams |->
             IF streams[i].key = key
             THEN [key |-> key, labels |-> labels, values |-> <<value>>]
             ELSE streams[i]]
    ELSE Append(streams, [key |-> key, labels |-> labels, values |-> <<value>>])

\* Variant: a new stream is put in front of the streams met before.
PlaceFront(streams, key, labels, value) ==
    IF \E i \in DOMAIN streams : streams[i].key = key
    THEN [i \in DOMAIN streams |->
             IF streams[i].key = key
             THEN [streams[i] EXCEPT !.values = Append(@, value)]
             ELSE streams[i]]
    ELSE <<[key |-> key, labels |-> labels, values |-> <<value>>]>> \o streams

\* if labels_key not in streams:
\*     streams[labels_key] = {'labels': labels, 'values': []}
\* streams[labels_key]['values'].append([...])
Place(streams, key, labels, value) ==
    IF \E i \in DOMAIN streams : streams[i].key = key
    THEN [i \in DOMAIN streams |->
             IF streams[i].key = key
             THEN [streams[i] EXCEPT !.values = Append(@, value)]
             ELSE streams[i]]
    ELSE Append(streams, [key |-> key, labels |-> labels, values |-> <<value>>])

\* One iteration of "for entry in batch": labels and labels_key are built,
\* then the value of the entry is placed.
AddEntry(streams, entry) ==
    Once(LAMBDA labels :
            Once(LAMBDA key :
                    Place(streams, key, labels,
                          <<entry.timestamp, entry.message>>),
                 LabelsKey(labels)),
         EntryLabels(entry))

\* "for entry in batch": the streams after an iteration are worked out
\* once (next) and handed to the rest of the loop.
RECURSIVE GroupStreams(_, _)
GroupStreams(streams, b) ==
    IF b = <<>> THEN streams
    ELSE Once(LAMBDA next : GroupStreams(next, Tail(b)),
              AddEntry(streams, Head(b)))

\* payload = {'streams': [{'stream': labels, 'values': values}, ...]}
Payload(b) ==
    Once(LAMBDA streams :
            [streams |-> [i \in DOMAIN streams |->
                             [stream |-> streams[i].labels,
                              values |-> streams[i].values]]],
         GroupStreams(<<>>, b))

\* No POST is in flight.
NoPayload == [streams |-> <<>>]

(***************************************************************************)
(* Initial state: the worker thread has executed "batch = []; last_flush = *)
(* time.time()" and called get().  In Init the constructor has returned.   *)
(***************************************************************************)
InitFields ==
    /\ now = 0
    /\ \E c \in Configs : batch_size = c[1] /\ flush_interval = c[2]
    /\ log_queue = <<>>
    /\ logged = 0
    /\ pc = "get"
    /\ batch = <<>>
    /\ last_flush = 0
    /\ current_time = 0
    /\ get_start = 0
    /\ dequeued_at = <<>>
    /\ payload = NoPayload
    /\ sent = <<>>
    /\ fresh = {}
    /\ close_pc = "open"
    /\ close_start = 0
    /\ close_logged = 0
    /\ self_labels = <<>>
    /\ response = "none"
    /\ posts = 0
    /\ stderr = 0

Init == InitFields /\ session = "assigned"

(***************************************************************************)
(* emit(record): lines 44-70.                                              *)
(***************************************************************************)
\* log_entry = {'timestamp': ..., 'message': ..., 'level': ..., **caller_info}
LogEntry(n, level, caller_info) ==
    [timestamp |-> now, message |-> n, level |-> level,
     function |-> caller_info.function, line |-> caller_info.line,
     file |-> caller_info.file]

\* Variant: Queue(maxsize=1), where put() waits while the queue is full.
PutEnabledBounded(q) == Len(q) < 1

\* self.log_queue = Queue(): no maxsize, so put() never waits for room.
PutEnabled(q) == TRUE

\* Variant: a LifoQueue, whose get() returns the entry put last.
PutFront(q, entry) == <<entry>> \o q

\* self.log_queue.put(log_entry)
Put(q, entry) == Append(q, entry)

\* Variant: the handler is handed to a logger before __init__ has returned.
ConstructedEarly == TRUE

\* __init__ has returned: only then does a caller hold the handler and can
\* a record reach emit().  Its last statements assign self.session.
Constructed == session = "assigned"

Emit(level, caller_info) ==
    /\ Constructed
    /\ logged < MaxEntries
    /\ PutEnabled(log_queue)
    /\ logged' = logged + 1
    /\ log_queue' = Put(log_queue, LogEntry(logged + 1, level, caller_info))
    /\ fresh' = IF log_queue = <<>> /\ batch = <<>>
                THEN fresh \cup {logged + 1} ELSE fresh
    /\ UNCHANGED <<now, batch_size, flush_interval,
                   self_labels, session, response, posts, stderr,
                   pc, batch,
                   last_flush, current_time, get_start, dequeued_at, payload,
                   sent, close_pc, close_start, close_logged>>

\* self.format(record) or _get_real_caller() raises: "except Exception:
\* self.handleError(record)".  Nothing is put on the queue and no field of
\* the handler changes.
EmitError ==
    /\ logged < MaxEntries
    /\ UNCHANGED vars

(***************************************************************************)
(* _batch_worker: lines 114-142, and the call of _send_batch.              *)
(***************************************************************************)
\* Variants of the flush condition with a slip in it.
ShouldFlushStrict(b, cur, lf) ==
    \/ Len(b) > batch_size
    \/ (b # <<>> /\ cur - lf >= IntervalTicks)

ShouldFlushNoInterval(b, cur, lf) ==
    \/ Len(b) >= batch_size
    \/ b # <<>>

ShouldFlushSizeOnly(b, cur, lf) == Len(b) >= batch_size

ShouldFlushIntervalOnly(b, cur, lf) == b # <<>> /\ cur - lf >= IntervalTicks

\* len(batch) >= self.batch_size or
\* (batch and current_time - last_flush >= self.flush_interval)
ShouldFlush(b, cur, lf) ==
    \/ Len(b) >= batch_size
    \/ (b # <<>> /\ cur - lf >= IntervalTicks)

\* Variant without the "if batch:" guard.
HasBatchUnguarded(b) == TRUE

\* "if batch:" inside the flush branch
HasBatch(b) == b # <<>>

\* Variant with a get() timeout twice as long.
GetTimedOutLate == now - get_start >= 2 * PollTicks

\* get(timeout=1.0) raises Empty once the timeout has elapsed
GetTimedOut == now - get_start >= PollTicks

\* The outcomes of one _send_batch call: the status of the response, or an
\* exception raised by session.post ("exception").  Nothing before the
\* POST raises: every entry has its level, function and file, and all
\* label values are strings, which json.dumps accepts.  The exception is
\* caught inside _send_batch.
Statuses == {"200", "201", "204", "500"}
Outcomes == Statuses \cup {"exception"}

\* Variant: every 2xx status is taken as delivered.
SuccessAny2xx(outcome) == outcome \in {"200", "201", "204"}

\* not (response.status_code not in [200, 204])
Success(outcome) == outcome \in {"200", "204"}

\* What _send_batch does with the outcome: nothing on success, one report
\* printed to sys.stderr otherwise.
Result(outcome) == IF Success(outcome) THEN "ok" ELSE "reported"
Reports(outcome) == IF Success(outcome) THEN 0 ELSE 1

\* Variant: an exception of the send ends the worker thread.
PcAfterSendDies(outcome) == IF outcome = "exception" THEN "dead" ELSE "get"

\* "while True:" with every exception caught: after a send the worker is
\* back in log_queue.get.
PcAfterSend(outcome) == "get"

\* Variant: last_flush = time.time() after the send.
FlushTimeAfterSend(cur) == now

\* last_flush = current_time
FlushTime(cur) == cur

\* Variants: the batch is kept for a retry after a failure; never cleared.
BatchAfterSendRetry(b, outcome) == IF Success(outcome) THEN <<>> ELSE b
BatchAfterSendKeep(b, outcome) == b

\* "batch = []" after _send_batch returned
BatchAfterSend(b, outcome) == <<>>

\* Lines 130-139 up to the call of _send_batch, with b the batch after the
\* dequeue step and d the dequeue times of its entries.
Check(b, d) ==
    /\ current_time' = now
    /\ batch' = b
    /\ dequeued_at' = d
    /\ IF ShouldFlush(b, now, last_flush) /\ HasBatch(b)
       THEN /\ pc' = "post"
            /\ payload' = Payload(b)
            /\ sent' = Append(sent, [messages |-> Messages(b), result |-> "pending"])
            /\ posts' = posts + 1
            /\ UNCHANGED get_start
       ELSE /\ pc' = "get"
            /\ get_start' = now
            /\ UNCHANGED <<payload, sent, posts>>
    /\ UNCHANGED <<now, batch_size, flush_interval,
                   self_labels, session, response, stderr,
                   logged,
                   last_flush, fresh, close_pc, close_start, close_logged>>

\* log_entry = self.log_queue.get(timeout=1.0); batch.append(log_entry)
WorkerGet ==
    /\ pc = "get"
    /\ log_queue # <<>>
    /\ log_queue' = Tail(log_queue)
    /\ Check(Append(batch, Head(log_queue)), Append(dequeued_at, now))

\* except Empty: pass
WorkerEmpty ==
    /\ pc = "get"
    /\ log_queue = <<>>
    /\ GetTimedOut
    /\ UNCHANGED log_queue
    /\ Check(batch, dequeued_at)

\* _send_batch returns; batch = []; last_flush = current_time.  Without
\* self.session the call ends in an AttributeError, caught as any other.
PostReturn(outcome) ==
    /\ pc = "post"
    /\ session = "unassigned" => outcome = "exception"
    /\ payload' = NoPayload
    /\ sent' = [sent EXCEPT ![Len(sent)].result = Result(outcome)]
    /\ batch' = BatchAfterSend(batch, outcome)
    /\ dequeued_at' = IF batch' = <<>> THEN <<>> ELSE dequeued_at
    /\ last_flush' = FlushTime(current_time)
    /\ pc' = PcAfterSend(outcome)
    /\ get_start' = now
    /\ stderr' = stderr + Reports(outcome)
    /\ UNCHANGED <<now, batch_size, flush_interval,
                   self_labels, session, response, posts,
                   log_queue, logged,
                   current_time, fresh, close_pc, close_start,
                   close_logged>>

(***************************************************************************)
(* close(): lines 198-205.                                                 *)
(***************************************************************************)
\* time.sleep(self.flush_interval + 1) begins
CloseCall ==
    /\ close_pc = "open"
    /\ close_pc' = "sleeping"
    /\ close_start' = now
    /\ close_logged' = logged
    /\ UNCHANGED <<now, batch_size, flush_interval,
                   self_labels, session, response, posts, stderr,
                   log_queue, logged,
                   pc, batch, last_flush, current_time, get_start,
                   dequeued_at, payload, sent, fresh>>

\* the sleep is over: self.session.close()
CloseRelease ==
    /\ close_pc = "sleeping"
    /\ now - close_start >= GraceTicks
    /\ close_pc' = "closed"
    /\ UNCHANGED <<now, batch_size, flush_interval,
                   self_labels, session, response, posts, stderr,
                   log_queue, logged,
                   pc, batch, last_flush, current_time, get_start,
                   dequeued_at, payload, sent, fresh, close_start, close_logged>>

(***************************************************************************)
(* Time.  The worker is blocked in get() on an empty queue until the       *)
(* timeout, or inside the POST; every other step of it takes no time.      *)
(***************************************************************************)
WorkerBlocked ==
    \/ (pc = "get" /\ log_queue = <<>> /\ ~GetTimedOut)
    \/ (pc = "post" /\ now - current_time < MaxPostTicks)

Tick ==
    /\ now < MaxTime
    /\ WorkerBlocked
    /\ now' = now + 1
    /\ UNCHANGED <<batch_size, flush_interval,
                   self_labels, session, response, posts, stderr,
                   log_queue, logged,
                   pc, batch, last_flush, current_time, get_start,
                   dequeued_at, payload, sent, fresh, close_pc, close_start,
                   close_logged>>

Next ==
    \/ \E level \in Levels, caller_info \in CallerInfos : Emit(level, caller_info)
    \/ EmitError
    \/ WorkerGet
    \/ WorkerEmpty
    \/ \E outcome \in Outcomes : PostReturn(outcome)
    \/ Tick

Spec == Init /\ [][Next]_vars

(***************************************************************************)
(* The handler over unbounded time, for progress properties.  When the     *)
(* clock has reached MaxTime it stays there and every time stamp held by   *)
(* the handler moves back by one tick instead (0 standing for "MaxTime or  *)
(* more ticks ago"); the differences the code computes are unchanged as    *)
(* long as the intervals compared (flush interval, poll timeout, POST      *)
(* duration) are at most MaxTime ticks.  The worker                        *)
(* thread keeps being scheduled, the clock keeps running and every POST    *)
(* returns; producers are free to log or not.                              *)
(***************************************************************************)
Back(t) == IF t > 0 THEN t - 1 ELSE 0
BackEntries(q) == [i \in DOMAIN q |-> [q[i] EXCEPT !.timestamp = Back(@)]]

TickShift ==
    /\ now = MaxTime
    /\ WorkerBlocked
    /\ last_flush' = Back(last_flush)
    /\ current_time' = Back(current_time)
    /\ get_start' = Back(get_start)
    /\ close_start' = Back(close_start)
    /\ dequeued_at' = [i \in DOMAIN dequeued_at |-> Back(dequeued_at[i])]
    /\ log_queue' = BackEntries(log_queue)
    /\ batch' = BackEntries(batch)
    /\ UNCHANGED <<now, batch_size, flush_interval,
                   self_labels, session, response, posts, stderr,
                   logged, pc, payload, sent, fresh,
                   close_pc, close_logged>>

LiveConfigs == {c \in Configs : c[2] * TicksPerUnit + PollTicks <= MaxTime}

InitLive == Init /\ <<batch_size, flush_interval>> \in LiveConfigs

\* The steps of Next, with the producers logging at one level (the worker
\* reads the level of an entry in the grouping of _send_batch only, which
\* has no part in its progress), and TickShift.
NextLive ==
    \/ \E caller_info \in CallerInfos : Emit("INFO", caller_info)
    \/ EmitError
    \/ WorkerGet
    \/ WorkerEmpty
    \/ \E outcome \in Outcomes : PostReturn(outcome)
    \/ Tick
    \/ TickShift

LiveSpec ==
    /\ InitLive
    /\ [][NextLive]_vars
    /\ WF_vars(WorkerGet)
    /\ WF_vars(WorkerEmpty)
    /\ WF_vars(\E outcome \in Outcomes : PostReturn(outcome))
    /\ WF_vars(Tick \/ TickShift)

\* The handler with close() being called at some point.
NextClose == Next \/ CloseCall \/ CloseRelease
SpecClose == Init /\ [][NextClose]_vars

(***************************************************************************)
(* The handler from the middle of its constructor: the worker thread has   *)
(* been started (line 34) and self.session is not assigned yet (lines      *)
(* 37-42).  The constructing thread may be held up for any time.           *)
(***************************************************************************)
InitCtor == InitFields /\ session = "unassigned"

\* self.session = requests.Session(); headers; __init__ returns
AssignSession ==
    /\ session = "unassigned"
    /\ session' = "assigned"
    /\ UNCHANGED <<now, batch_size, flush_interval, self_labels, response,
                   posts, stderr, log_queue, logged, pc, batch, last_flush,
                   current_time, get_start, dequeued_at, payload, sent,
                   fresh, close_pc, close_start, close_logged>>

NextCtor == Next \/ AssignSession
SpecCtor == InitCtor /\ [][NextCtor]_vars

(***************************************************************************)
(* One call of _send_batch on its own (lines 144-196), from its entry      *)
(* ("call") to the end of its body ("return"), where its locals payload    *)
(* and response can still be seen.  The batch and self.labels are drawn    *)
(* from bounded sets; the batch is never empty, as the worker guards the   *)
(* call with "if batch:".                                                  *)
(***************************************************************************)
\* What _get_real_caller may return: a function of app.py, the top level
\* of a script named "p|function=q.py" (function: "<stem>_module"), and a
\* function q_module of a file named "p|function=q.py|function=p".
SendCallerInfos ==
    {[function |-> "main", line |-> 7, file |-> "app.py"],
     [function |-> "p|function=q_module", line |-> 1,
      file |-> "p|function=q.py"],
     [function |-> "q_module", line |-> 3,
      file |-> "p|function=q.py|function=p"]}

\* Values of the labels argument of the constructor.
LabelDicts ==
    {<<>>,
     << <<"env", "prod">>, <<"app", "web">> >>,
     << <<"app", "web">>, <<"env", "prod">> >>,
     << <<"job", "svc">> >>}

SendBatches ==
    UNION {[1..n -> Levels \X SendCallerInfos] : n \in 1..MaxBatchLen}

InitSend ==
    /\ now = 0
    /\ batch_size = DefaultBatchSize
    /\ flush_interval = DefaultFlushInterval
    /\ log_queue = <<>>
    /\ \E b \in SendBatches :
          /\ batch = [i \in DOMAIN b |-> LogEntry(i, b[i][1], b[i][2])]
          /\ logged = Len(b)
          /\ dequeued_at = [i \in DOMAIN b |-> 0]
    /\ pc = "call"
    /\ last_flush = 0
    /\ current_time = 0
    /\ get_start = 0
    /\ payload = NoPayload
    /\ sent = <<>>
    /\ fresh = {}
    /\ close_pc = "open"
    /\ close_start = 0
    /\ close_logged = 0
    /\ self_labels \in LabelDicts
    /\ session = "assigned"
    /\ response = "none"
    /\ posts = 0
    /\ stderr = 0

SendBatch(outcome) ==
    /\ pc = "call"
    /\ pc' = "return"
    /\ payload' = Payload(batch)
    /\ posts' = posts + 1
    /\ response' = IF outcome \in Statuses THEN outcome ELSE "none"
    /\ stderr' = stderr + Reports(outcome)
    /\ sent' = Append(sent, [messages |-> Messages(batch),
                             result |-> Result(outcome)])
    /\ UNCHANGED <<now, batch_size, flush_interval, self_labels, session,
                   log_queue, logged, batch, last_flush, current_time,
                   get_start, dequeued_at, fresh, close_pc, close_start,
                   close_logged>>

NextSend == \E outcome \in Outcomes : SendBatch(outcome)
SpecSend == InitSend /\ [][NextSend]_vars

(***************************************************************************)
(* Observations on the POST in flight and on the history of calls.         *)
(***************************************************************************)
\* The positions <<stream, value>> of a payload.
Positions(p) ==
    UNION {{<<i, j>> : j \in DOMAIN p.streams[i].values} : i \in DOMAIN p.streams}

ValueAt(p, pos) == p.streams[pos[1]].values[pos[2]]

\* The payload carries exactly the entries of b, each once.
Carries(p, b) ==
    /\ Cardinality(Positions(p)) = Len(b)
    /\ \A n \in DOMAIN b :
          \E pos \in Positions(p) :
              ValueAt(p, pos) = <<b[n].timestamp, b[n].message>>

\* The messages handed to some _send_batch call so far.
Handed == UNION {Range(sent[k].messages) : k \in DOMAIN sent}

\* How many times message m was handed to _send_batch so far.
Occurrences(m) ==
    Cardinality(UNION {{<<k, i>> : i \in {j \in DOMAIN sent[k].messages :
                                             sent[k].messages[j] = m}} :
                       k \in DOMAIN sent})

\* The entries the handler holds: on the queue or in the worker's batch.
Held == Range(log_queue) \cup Range(batch)

(***************************************************************************)
(* C1.  Size-triggered flush: in a poll cycle whose dequeue step brings    *)
(* the batch to batch_size entries (batch_size >= 1), the worker calls     *)
(* _send_batch on exactly those entries in the same cycle, whatever        *)
(* current_time - last_flush is, and it dequeues nothing more until that   *)
(* call has returned and the batch is cleared.                             *)
(***************************************************************************)
SizeFlushStep ==
    (pc = "get" /\ batch_size >= 1 /\ Len(batch') = Len(batch) + 1
        /\ Len(batch') = batch_size)
    => (/\ pc' = "post"
        /\ Len(sent') = Len(sent) + 1
        /\ Last(sent').result = "pending"
        /\ Last(sent').messages = Messages(batch')
        /\ Carries(payload', batch'))

NoDequeueInSend ==
    pc = "post"
    => (/\ Len(log_queue') >= Len(log_queue)
        /\ (batch' = batch \/ (pc' = "get" /\ batch' = <<>>)))

SizeTriggeredFlush == [][SizeFlushStep /\ NoDequeueInSend]_vars

\* A full batch is being sent with no time elapsed since last_flush.
SizeTriggeredFlushWitness ==
    /\ pc = "post"
    /\ batch_size = 2
    /\ Len(batch) = 2
    /\ current_time = last_flush

(***************************************************************************)
(* C2.  As claimed: from any state with queue and batch empty, enqueuing   *)
(* batch_size entries within less than flush_interval yields one           *)
(* _send_batch call that carries all of them.  Stated for the call in      *)
(* flight whose first entry began such a burst, the rest of the burst      *)
(* being already enqueued.                                                 *)
(***************************************************************************)
BurstInOneSend ==
    (pc = "post" /\ batch_size >= 1 /\ batch[1].message \in fresh)
    => \A e \in Held :
          (/\ e.message = batch[1].message + batch_size - 1
           /\ e.timestamp - batch[1].timestamp < IntervalTicks)
          => /\ Len(batch) = batch_size
             /\ e \in Range(batch)
             /\ Carries(payload, batch)

(***************************************************************************)
(* C2, amended.  A _send_batch call carries the whole batch, never more    *)
(* than batch_size entries, and fewer than batch_size entries only when    *)
(* current_time - last_flush >= flush_interval in that poll cycle: a burst *)
(* of batch_size entries is sent in one call when all of it is dequeued    *)
(* before last_flush + flush_interval.                                     *)
(***************************************************************************)
BurstSplitOnlyAtDeadline ==
    (pc = "post" /\ batch_size >= 1)
    => (/\ Carries(payload, batch)
        /\ Last(sent).messages = Messages(batch)
        /\ Len(batch) <= batch_size
        /\ (Len(batch) < batch_size
               => current_time - last_flush >= IntervalTicks))

\* A burst that began on an empty queue and batch is being sent whole,
\* before the deadline, as one stream.
BurstSplitOnlyAtDeadlineWitness ==
    /\ pc = "post"
    /\ batch_size = 2
    /\ Len(batch) = 2
    /\ batch[1].message \in fresh
    /\ now > 0
    /\ current_time - last_flush < IntervalTicks
    /\ Len(payload.streams) = 1
    /\ Len(payload.streams[1].values) = 2

(***************************************************************************)
(* C3.  Time-triggered flush: a non-empty batch waiting in the worker is   *)
(* never older than last_flush + flush_interval + poll timeout; a batch is *)
(* handed to _send_batch no later than one poll timeout after the later of *)
(* that deadline and its first dequeue; and no entry stays in the batch    *)
(* longer than flush_interval + poll timeout before it is handed over.     *)
(***************************************************************************)
Max(a, b) == IF a >= b THEN a ELSE b

TimeTriggeredFlush ==
    /\ (pc = "get" /\ batch # <<>>)
       => /\ now - last_flush <= IntervalTicks + PollTicks
          /\ \A i \in DOMAIN batch :
                now - dequeued_at[i] <= IntervalTicks + PollTicks
    /\ pc = "post"
       => /\ current_time
                <= Max(last_flush + IntervalTicks, dequeued_at[1]) + PollTicks
          /\ \A i \in DOMAIN batch :
                current_time - dequeued_at[i] <= IntervalTicks + PollTicks

\* A partial batch is being sent after its deadline has passed.
TimeTriggeredFlushWitness ==
    /\ pc = "post"
    /\ Len(batch) < batch_size
    /\ current_time > last_flush + IntervalTicks
    /\ current_time > dequeued_at[1]

(***************************************************************************)
(* C4.  No flush on an empty batch: no _send_batch call is ever made with  *)
(* an empty batch, for any batch_size (also <= 0); while nothing has been  *)
(* enqueued no call is made at all.                                        *)
(***************************************************************************)
NoEmptyFlush ==
    /\ \A k \in DOMAIN sent : sent[k].messages # <<>>
    /\ pc = "post" => (batch # <<>> /\ Positions(payload) # {})
    /\ Len(sent) <= logged

\* An idle worker with batch_size <= 0, long after the flush interval.
NoEmptyFlushWitness ==
    /\ batch_size <= 0
    /\ logged = 0
    /\ now > IntervalTicks + PollTicks
    /\ get_start > IntervalTicks
    /\ sent = <<>>

(***************************************************************************)
(* C5.  At-most-once on failure: when _send_batch has failed, the batch is *)
(* cleared as after a success, nothing is put back on the queue, no new    *)
(* call is made in that step, and no entry of the failed batch is in the   *)
(* queue, in the batch or in a later call.                                 *)
(***************************************************************************)
FailedReturnStep ==
    (pc = "post" /\ pc' = "get" /\ Last(sent').result = "reported")
    => (/\ batch' = <<>>
        /\ log_queue' = log_queue
        /\ Len(sent') = Len(sent))

FailedNeverResent ==
    \A j \in DOMAIN sent :
        sent[j].result = "reported"
        => /\ \A k \in DOMAIN sent :
                 k > j => Range(sent[j].messages) \cap Range(sent[k].messages) = {}
           /\ \A e \in Held : e.message \notin Range(sent[j].messages)

AtMostOnceOnFailure == [](FailedNeverResent) /\ [][FailedReturnStep]_vars

\* A failed call followed by a later call.
AtMostOnceOnFailureWitness ==
    \E j, k \in DOMAIN sent : j < k /\ sent[j].result = "reported"

(***************************************************************************)
(* C6.  Shutdown drain, as claimed: when close() releases the session,     *)
(* every entry enqueued before close() was called has been handed to a     *)
(* _send_batch call.                                                       *)
(***************************************************************************)
ShutdownDrain ==
    close_pc = "closed" => \A m \in 1..close_logged : m \in Handed

(***************************************************************************)
(* C7.  No drops: with the worker scheduled, time passing and every POST   *)
(* returning, every entry put on the queue is eventually handed to a       *)
(* _send_batch call (and so dequeued), whatever the producers do.          *)
(***************************************************************************)
NoDrops == \A m \in 1..MaxEntries : (logged >= m) ~> (m \in Handed)

\* Entries piled up behind a POST in flight, and all were handed over.
NoDropsWitness ==
    /\ logged = MaxEntries
    /\ Handed = 1..MaxEntries
    /\ Len(sent) >= 2
    /\ pc = "get"
    /\ log_queue = <<>>
    /\ batch = <<>>

(***************************************************************************)
(* C8.  No duplication: every enqueued entry is handed to _send_batch at   *)
(* most once over all calls, and an entry that was handed over is no       *)
(* longer on the queue nor, once the call has returned, in the batch.      *)
(***************************************************************************)
NoDuplication ==
    /\ \A m \in 1..logged : Occurrences(m) <= 1
    /\ \A e \in Range(log_queue) : e.message \notin Handed
    /\ pc = "get" => \A e \in Range(batch) : e.message \notin Handed

\* Two calls were made, the first of which failed: its entries are lost.
NoDuplicationWitness ==
    /\ Len(sent) = 2
    /\ sent[1].result = "reported"
    /\ sent[2].result = "ok"
    /\ Handed = 1..2

(***************************************************************************)
(* C9.  Enqueue never blocks and never fails: in every reachable state     *)
(* (worker inside a POST or not, sends failing or not, any queue length)   *)
(* the put of emit() is enabled, and it appends the new entry at the tail  *)
(* of the queue without touching the worker or the clock.                  *)
(***************************************************************************)
EmitAny ==
    \E level \in Levels, caller_info \in CallerInfos : Emit(level, caller_info)

PutAppendsStep ==
    logged' = logged + 1
    => (/\ Len(log_queue') = Len(log_queue) + 1
        /\ SubSeq(log_queue', 1, Len(log_queue)) = log_queue
        /\ Last(log_queue').message = logged + 1
        /\ Last(log_queue').timestamp = now
        /\ UNCHANGED <<now, pc, batch, last_flush, current_time, payload, sent>>)

EnqueueNeverBlocks ==
    [](logged < MaxEntries => ENABLED EmitAny) /\ [][PutAppendsStep]_vars

\* An entry was put on the queue while the worker was inside a POST.
EnqueueNeverBlocksWitness ==
    /\ pc = "post"
    /\ Len(log_queue) >= 1
    /\ Last(log_queue).timestamp > current_time
    /\ now > current_time

(***************************************************************************)
(* C10.  As the test expects: with the defaults (batch_size 10,            *)
(* flush_interval 5), a record logged right after construction has been    *)
(* handed to a POST once 2 seconds have passed since the log call.         *)
(***************************************************************************)
DefaultPostWithinTestWait ==
    \A e \in Held :
        (/\ batch_size = DefaultBatchSize
         /\ flush_interval = DefaultFlushInterval
         /\ e.message = 1
         /\ e.timestamp = 0
         /\ now - e.timestamp > TestWait * TicksPerUnit)
        => e.message \in Handed

(***************************************************************************)
(* Observations on one _send_batch call that has built its payload.        *)
(***************************************************************************)
Built == pc = "return" /\ payload # NoPayload

\* The value [timestamp, message] of an entry, and where the payload has it.
EntryValue(e) == <<e.timestamp, e.message>>
PlacesOf(p, e) == {pos \in Positions(p) : ValueAt(p, pos) = EntryValue(e)}
StreamsOf(p, e) == {pos[1] : pos \in PlacesOf(p, e)}

\* The label set of an entry, as a map.
LabelSet(e) == AsMap(EntryLabels(e))

(***************************************************************************)
(* C11.  Grouping by label set: in the payload of a _send_batch call every *)
(* entry of the batch appears exactly once, the payload holds nothing      *)
(* else, two entries with equal label sets are in the same stream, and the *)
(* values of each stream are in batch order.                               *)
(***************************************************************************)
GroupedByLabelSet ==
    Built
    => /\ \A n \in DOMAIN batch :
             Cardinality(PlacesOf(payload, batch[n])) = 1
       /\ Cardinality(Positions(payload)) = Len(batch)
       /\ \A n, m \in DOMAIN batch :
             LabelSet(batch[n]) = LabelSet(batch[m])
             => StreamsOf(payload, batch[n]) = StreamsOf(payload, batch[m])
       /\ \A i \in DOMAIN payload.streams :
             \A j, k \in DOMAIN payload.streams[i].values :
                 j < k => payload.streams[i].values[j][2]
                              < payload.streams[i].values[k][2]

\* Two entries with one label set, parted in the batch by an entry with
\* another, came out as one stream of two values and one stream of one.
GroupedByLabelSetWitness ==
    /\ Built
    /\ Len(batch) = 3
    /\ Len(payload.streams) = 2
    /\ LabelSet(batch[1]) = LabelSet(batch[3])
    /\ LabelSet(batch[1]) # LabelSet(batch[2])
    /\ payload.streams[1].values = <<EntryValue(batch[1]), EntryValue(batch[3])>>
    /\ payload.streams[2].values = <<EntryValue(batch[2])>>

(***************************************************************************)
(* C12.  Stream order: the payload lists one stream per distinct grouping  *)
(* key of the batch, in the order in which the keys are first met in the   *)
(* batch; each stream carries the labels of the first entry with its key   *)
(* and the values of all entries with that key, in batch order.  The       *)
(* payload is thereby a function of the batch and the base labels.         *)
(***************************************************************************)
GroupingKey(e) == LabelsKey(EntryLabels(e))

\* The grouping keys of the entries of b, as a sequence.
RECURSIVE BatchKeys(_)
BatchKeys(b) ==
    IF b = <<>> THEN <<>> ELSE <<GroupingKey(Head(b))>> \o BatchKeys(Tail(b))

\* The places in b of the entries that are the first with their key, and of
\* the entries with the key of entry n, both in batch order.
Firsts(keys) ==
    SelectSeq([n \in DOMAIN keys |-> n],
              LAMBDA n : \A m \in 1..(n - 1) : keys[m] # keys[n])
SameKey(keys, n) ==
    SelectSeq([m \in DOMAIN keys |-> m], LAMBDA m : keys[m] = keys[n])

StreamFrom(b, places) ==
    [stream |-> EntryLabels(b[places[1]]),
     values |-> [j \in DOMAIN places |-> EntryValue(b[places[j]])]]

StreamsInFirstMetOrder ==
    Built
    => \A keys \in {BatchKeys(batch)} :
          \A firsts \in {Firsts(keys)} :
              payload.streams
                 = [i \in DOMAIN firsts |->
                       StreamFrom(batch, SameKey(keys, firsts[i]))]

\* Three entries with three keys: three streams in batch order, which is
\* not the order of the keys as strings ("level=info" before "level=error").
StreamsInFirstMetOrderWitness ==
    /\ Built
    /\ Len(batch) = 3
    /\ Len(payload.streams) = 3
    /\ batch[1].level = "INFO"
    /\ batch[2].level = "ERROR"
    /\ batch[1].file = batch[2].file
    /\ \A i \in 1..3 : payload.streams[i].values = <<EntryValue(batch[i])>>

(***************************************************************************)
(* C13.  The grouping key does not depend on insertion order: the label    *)
(* dict built for an entry from self.labels and the dict built for it from *)
(* any other value of self.labels, or with its items inserted in the       *)
(* reverse order, have the same grouping key whenever the two are equal as *)
(* maps; and the stream that holds the entry is the one with that key.     *)
(***************************************************************************)
Reverse(d) == [i \in DOMAIN d |-> d[Len(d) + 1 - i]]

KeyIgnoresInsertionOrder ==
    Built
    => \A n \in DOMAIN batch :
          \A labels \in {EntryLabels(batch[n])} :
              \A key \in {LabelsKey(labels)} :
                  /\ LabelsKey(Reverse(labels)) = key
                  /\ \A own \in LabelDicts :
                        \A other \in {EntryLabelsOf(own, batch[n])} :
                            AsMap(other) = AsMap(labels) => LabelsKey(other) = key
                  /\ \A i \in StreamsOf(payload, batch[n]) :
                        LabelsKey(payload.streams[i].stream) = key

\* self.labels holds two keys, and the same two keys given in the other
\* order make a label dict that is equal as a map but not as a sequence.
KeyIgnoresInsertionOrderWitness ==
    /\ Built
    /\ Len(self_labels) = 2
    /\ \E own \in LabelDicts :
          /\ own # self_labels
          /\ EntryLabelsOf(own, batch[1]) # EntryLabels(batch[1])
          /\ AsMap(EntryLabelsOf(own, batch[1])) = AsMap(EntryLabels(batch[1]))
          /\ LabelsKey(EntryLabelsOf(own, batch[1]))
                = LabelsKey(EntryLabels(batch[1]))

(***************************************************************************)
(* C19.  As claimed: the grouping key is injective.  Two entries of a      *)
(* batch with different label sets have different keys and are in          *)
(* different streams, also when label values contain "|" or "=", and every *)
(* value of a stream comes from an entry whose label set is that stream's  *)
(* labels.                                                                 *)
(***************************************************************************)
KeyInjective ==
    Built
    => /\ \A n, m \in DOMAIN batch :
             LabelSet(batch[n]) # LabelSet(batch[m])
             => /\ GroupingKey(batch[n]) # GroupingKey(batch[m])
                /\ StreamsOf(payload, batch[n]) \cap StreamsOf(payload, batch[m]) = {}
       /\ \A n \in DOMAIN batch :
             \A i \in StreamsOf(payload, batch[n]) :
                 AsMap(payload.streams[i].stream) = LabelSet(batch[n])

(***************************************************************************)
(* C15.  One POST at most, and the outcome classified by the status: at    *)
(* the end of a _send_batch call at most one session.post call was made    *)
(* (exactly one if there is a response); the call counts as delivered      *)
(* exactly when the response status is 200 or 204; otherwise (another      *)
(* status, or no response because an exception was raised) exactly one     *)
(* report was printed to stderr; and the call returns to the worker with   *)
(* the batch and the queue as they were.                                   *)
(***************************************************************************)
OneShotClassified ==
    pc = "return"
    => /\ posts <= 1
       /\ response # "none" => posts = 1
       /\ Len(sent) = 1
       /\ Last(sent).result = "ok" <=> response \in {"200", "204"}
       /\ stderr = IF response \in {"200", "204"} THEN 0 ELSE 1
       /\ Last(sent).messages = Messages(batch)
       /\ log_queue = <<>>

\* Loki answered 500: one POST, one report.
OneShotClassifiedWitness ==
    /\ pc = "return"
    /\ response = "500"
    /\ posts = 1
    /\ stderr = 1
    /\ Last(sent).result = "reported"

(***************************************************************************)
(* C16.  last_flush bookkeeping: last_flush is the time at which the       *)
(* worker started; it changes only when a _send_batch call returns, and is *)
(* then the current_time taken in the poll cycle that made the call (the   *)
(* time before the POST, not after it); it never decreases and never       *)
(* exceeds the clock; a poll cycle that makes no call leaves last_flush    *)
(* and the entries already in the batch as they are.                       *)
(***************************************************************************)
IsPrefix(s, t) == Len(s) <= Len(t) /\ SubSeq(t, 1, Len(s)) = s

LastFlushStep ==
    /\ (pc = "get" /\ pc' = "post") => (current_time' = now /\ last_flush' = last_flush)
    /\ (pc = "post" /\ pc' = "get") => last_flush' = current_time
    /\ (pc = "get" /\ pc' = "get")
       => (last_flush' = last_flush /\ IsPrefix(batch, batch'))
    /\ last_flush' # last_flush => (pc = "post" /\ pc' = "get")
    /\ last_flush' >= last_flush

LastFlushBookkeeping ==
    /\ last_flush = now
    /\ [](last_flush <= current_time /\ current_time <= now)
    /\ [][LastFlushStep]_vars

\* A call that blocked for a while has returned: last_flush is the time
\* before the POST, the clock is ahead of it.
LastFlushBookkeepingWitness ==
    /\ pc = "get"
    /\ sent # <<>>
    /\ batch = <<>>
    /\ last_flush > 0
    /\ last_flush = current_time
    /\ now > last_flush
    /\ get_start = now

(***************************************************************************)
(* C17.  Bounded batch: with batch_size >= 1 the batch never holds more    *)
(* than batch_size entries, whatever waits on the queue and however long   *)
(* a POST blocks, and every _send_batch call and payload carries between 1 *)
(* and batch_size entries.                                                 *)
(***************************************************************************)
BoundedBatch ==
    batch_size >= 1
    => /\ Len(batch) <= batch_size
       /\ \A k \in DOMAIN sent : Len(sent[k].messages) \in 1..batch_size
       /\ pc = "post" => Cardinality(Positions(payload)) \in 1..batch_size

\* batch_size 1: a POST has blocked for as long as it may while another
\* entry waits on the queue.
BoundedBatchWitness ==
    /\ batch_size = 1
    /\ pc = "post"
    /\ Len(batch) = 1
    /\ Len(log_queue) >= 1
    /\ now - current_time = MaxPostTicks

(***************************************************************************)
(* C20.  FIFO across batches: entries are numbered in the order of their   *)
(* put on the queue, whichever producer made it.  The messages of the      *)
(* _send_batch calls made so far, one call after the other, followed by    *)
(* the batch not yet handed over and by the queue, are exactly 1..logged   *)
(* in order: successive calls carry consecutive, non-overlapping segments  *)
(* of the enqueue sequence, and an entry enqueued earlier is never in a    *)
(* later call than one enqueued after it.                                  *)
(***************************************************************************)
RECURSIVE HandedInOrder(_)
HandedInOrder(calls) ==
    IF calls = <<>> THEN <<>>
    ELSE calls[1].messages \o HandedInOrder(Tail(calls))

FifoAcrossBatches ==
    HandedInOrder(sent)
        \o (IF pc = "get" THEN Messages(batch) ELSE <<>>)
        \o Messages(log_queue)
    = [m \in 1..logged |-> m]

\* Two entries went out in two calls, the second still in flight.
FifoAcrossBatchesWitness ==
    /\ pc = "post"
    /\ Len(sent) = 2
    /\ sent[1].messages = <<1>>
    /\ sent[2].messages = <<2>>
    /\ batch[1].timestamp < current_time

(***************************************************************************)
(* C14.  Failure isolation: once a _send_batch call has failed, the worker *)
(* is still running, a producer's emit() is still enabled, and every entry *)
(* on the queue that was in no call up to the failed one is eventually     *)
(* handed to a later call; this holds on every behaviour, those on which   *)
(* every call fails included.                                              *)
(***************************************************************************)
Failed(k) == k \in DOMAIN sent /\ sent[k].result = "reported"

\* m was enqueued and is in no call up to some failed call.
AfterFailure(m) ==
    /\ logged >= m
    /\ \E k \in DOMAIN sent :
          Failed(k) /\ \A j \in 1..k : m \notin Range(sent[j].messages)

\* m is in a call made after a failed call.
HandedAfterFailure(m) ==
    \E k, j \in DOMAIN sent :
        Failed(k) /\ k < j /\ m \in Range(sent[j].messages)

FailureIsolation ==
    /\ []((\E k \in DOMAIN sent : Failed(k))
            => /\ pc \in {"get", "post"}
               /\ logged < MaxEntries => ENABLED EmitAny)
    /\ \A m \in 1..MaxEntries : AfterFailure(m) ~> HandedAfterFailure(m)

\* Every call so far has failed, and an entry enqueued after the first
\* failure was handed to the second call.
FailureIsolationWitness ==
    /\ Len(sent) >= 2
    /\ \A k \in DOMAIN sent : Failed(k)
    /\ Handed = 1..logged
    /\ pc = "get"

(***************************************************************************)
(* C18.  Constructor race: the worker runs from line 34 on, self.session   *)
(* is assigned later, and still the worker is never inside the POST while  *)
(* self.session is unassigned: until __init__ has returned no record has   *)
(* been logged, so the batch is empty and no _send_batch call is made.     *)
(***************************************************************************)
SessionBeforePost ==
    /\ pc = "post" => session = "assigned"
    /\ session = "unassigned"
       => (logged = 0 /\ batch = <<>> /\ sent = <<>> /\ posts = 0)

\* The worker has gone through a poll cycle, on a batch_size that an empty
\* batch meets, while the constructor was still short of self.session.
SessionBeforePostWitness ==
    /\ session = "unassigned"
    /\ batch_size <= 0
    /\ get_start >= PollTicks
    /\ now > IntervalTicks + PollTicks
====
